---- MODULE Spec2Model ----
(***************************************************************************)
(* Nightshade consensus core (core/nightshadev2/src/nightshade.rs):        *)
(* the State algebra (BareState order, merge, incompatible_states) and the *)
(* per-authority state machine Nightshade with its single mutator          *)
(* update_state.                                                           *)
(***************************************************************************)
EXTENDS Integers, Sequences, FiniteSets, Bags, TLC

\* ---------------------------------------------------------------- bounds
\* number of authorities of the single-instance specification
NumAuthorities == 3
\* largest confidence0 / confidence1 of a state handed to update_state
MaxConfidence0 == 2
MaxConfidence1 == 1
\* number of update_state calls in one behaviour
MaxCalls == 3
\* the same for the specification that reaches a second commit
WideConfidence0 == 6
WideCalls == 2
\* two instances given the same updates in two orders: the updates given, and
\* the largest confidence0 of an update
OrderUpdates == 3
OrderConfidence0 == 1
\* the network of instances: authorities, calls, largest forged confidence0
NetAuthorities == 4
NetCalls == 3
NetConfidence0 == 3
\* two instances compared, with and without the verification cache
OracleCalls == 2
OracleConfidence0 == 1
\* the State algebra on two states, and an instance given them
AlgebraConfidence == 1
AlgebraCalls == 2
\* the network of honest authorities only
HonestAuthorities == 4
HonestCalls == 6

\* ------------------------------------------------ parameters of the tests
\* nightshade_all_sync(num_authorities, 5): the rounds of the synchronous run
SyncRounds == 5

\* ------------------------------------------------------- program constants
COMMIT_THRESHOLD == 3

\* ------------------------------------------------------------ Option<T>
None == [tag |-> "None"]
Some(x) == [tag |-> "Some", val |-> x]

\* ------------------------------------------------------------- NSResult
Updated(opt) == [kind |-> "Updated", opt |-> opt]
Error(msg) == [kind |-> "Error", msg |-> msg]
\* assert_eq! failed: the call unwinds instead of returning
Panic == [kind |-> "Panic"]

\* ------------------------------------------------------------ BareState
BareState(e, c0, c1) == [endorses |-> e, confidence0 |-> c0, confidence1 |-> c1]

BareState_new(endorses) == BareState(endorses, 0, 0)

BareState_empty == BareState(0, -1, -1)

\* mutant: the larger endorsed id ranks higher
cmp_larger_endorses(self, other) ==
    IF self.confidence0 # other.confidence0
    THEN (IF self.confidence0 > other.confidence0 THEN "Greater" ELSE "Less")
    ELSE IF self.endorses # other.endorses
    THEN (IF self.endorses > other.endorses THEN "Greater" ELSE "Less")
    ELSE IF self.confidence1 # other.confidence1
    THEN (IF self.confidence1 > other.confidence1 THEN "Greater" ELSE "Less")
    ELSE "Equal"

\* impl Ord for BareState
cmp(self, other) ==
    IF self.confidence0 # other.confidence0
    THEN (IF self.confidence0 > other.confidence0 THEN "Greater" ELSE "Less")
    ELSE IF self.endorses # other.endorses
    THEN (IF self.endorses < other.endorses THEN "Greater" ELSE "Less")
    ELSE IF self.confidence1 # other.confidence1
    THEN (IF self.confidence1 > other.confidence1 THEN "Greater" ELSE "Less")
    ELSE "Equal"

\* ---------------------------------------------------------- SignedState
SignedState_new == [signature |-> 0, parent |-> <<>>]

\* ---------------------------------------------------------------- State
State_new(endorses) ==
    [bare_state |-> BareState_new(endorses), proof0 |-> None, proof1 |-> None]

State_empty == [bare_state |-> BareState_empty, proof0 |-> None, proof1 |-> None]

\* SignedState::update: the signature is left alone, the bare state is pushed
SignedState_update(self, st) ==
    [self EXCEPT !.parent = Append(@, st.bare_state)]

increase_confidence(self, proof) ==
    [bare_state |-> BareState(self.bare_state.endorses,
                              self.bare_state.confidence0 + 1,
                              self.bare_state.confidence1),
     proof0 |-> Some(proof),
     proof1 |-> self.proof1]

can_commit(self) ==
    self.bare_state.confidence0 >= self.bare_state.confidence1 + COMMIT_THRESHOLD

verify(self) == TRUE

endorses(self) == self.bare_state.endorses

\* impl PartialEq / Ord for State: the bare state only
State_eq(a, b) == a.bare_state = b.bare_state

State_cmp(a, b) == cmp(a.bare_state, b.bare_state)

\* std::cmp::max returns its second argument when the two compare equal,
\* std::cmp::min its first
\* mutant: the first state is taken for the greater one
max_first(a, b) == a

max(a, b) == IF State_cmp(a, b) = "Greater" THEN a ELSE b

min(a, b) == IF State_cmp(a, b) = "Greater" THEN b ELSE a

\* mutant: the rival's confidence0 is taken without comparing it
merge_overwrites(state0, state1) ==
    LET max_state == max(state0, state1)
        min_state == min(state0, state1)
    IN  IF endorses(max_state) # endorses(min_state)
        THEN [max_state EXCEPT
                 !.bare_state.confidence1 = min_state.bare_state.confidence0,
                 !.proof1 = min_state.proof0]
        ELSE IF min_state.bare_state.confidence1 > max_state.bare_state.confidence1
             THEN [max_state EXCEPT
                      !.bare_state.confidence1 = min_state.bare_state.confidence1,
                      !.proof1 = min_state.proof1]
             ELSE max_state

merge(state0, state1) ==
    LET max_state == max(state0, state1)
        min_state == min(state0, state1)
    IN  IF endorses(max_state) # endorses(min_state)
        THEN IF min_state.bare_state.confidence0 > max_state.bare_state.confidence1
             THEN [max_state EXCEPT
                      !.bare_state.confidence1 = min_state.bare_state.confidence0,
                      !.proof1 = min_state.proof0]
             ELSE max_state
        ELSE IF min_state.bare_state.confidence1 > max_state.bare_state.confidence1
             THEN [max_state EXCEPT
                      !.bare_state.confidence1 = min_state.bare_state.confidence1,
                      !.proof1 = min_state.proof1]
             ELSE max_state

incompatible_states(state0, state1) ==
    ~State_eq(merge(state0, state1), max(state0, state1))

\* ----------------------------------------------------------- Nightshade
Nightshade_new(owner_id, num_authorities) ==
    [owner_id |-> owner_id,
     num_authorities |-> num_authorities,
     states |-> [i \in 0..(num_authorities - 1) |->
                    IF i = owner_id THEN State_new(i) ELSE State_empty],
     is_adversary |-> [i \in 0..(num_authorities - 1) |-> FALSE],
     best_state_counter |-> 1,
     seen_bare_states |-> {},
     committed |-> None]

state(self) == self.states[self.owner_id]

can_increase_confidence(self) ==
    self.best_state_counter > (self.num_authorities * 2) \div 3

is_final(self) == self.committed # None

\* the loop of update_state that collects the proof: authorities 0..i-1
RECURSIVE collect_proof(_, _)
collect_proof(self, i) ==
    IF i = 0 THEN SignedState_new
    ELSE LET proof == collect_proof(self, i - 1)
         IN  IF State_eq(self.states[i - 1], self.states[self.owner_id])
             THEN SignedState_update(proof, self.states[i - 1])
             ELSE proof

\* --- the steps of update_state, in the order of the code ---

\* mutant: the screen looks at the delivered state only and forgets the flag
adversary_screen_forgets_flag(self, authority_id, st) ==
    incompatible_states(self.states[authority_id], st)

\* mutant: a state older than the recorded one is taken for an equivocation
adversary_screen_flags_older(self, authority_id, st) ==
    \/ self.is_adversary[authority_id]
    \/ incompatible_states(self.states[authority_id], st)
    \/ State_cmp(st, self.states[authority_id]) = "Less"

\* the adversary screen
adversary_screen(self, authority_id, st) ==
    \/ self.is_adversary[authority_id]
    \/ incompatible_states(self.states[authority_id], st)

\* mutant: the equivocation is reported but the sender is not flagged
reject_adversary_without_flag(self, authority_id) ==
    [self |-> self, result |-> Error("Not processing adversaries updates")]

reject_adversary(self, authority_id) ==
    [self |-> [self EXCEPT !.is_adversary[authority_id] = TRUE],
     result |-> Error("Not processing adversaries updates")]

\* the bare state is verified unless it was verified before; valid is what
\* state.verify() answers when it is asked
passes_verification_by(self, st, valid) ==
    st.bare_state \in self.seen_bare_states \/ valid

passes_verification(self, st) == passes_verification_by(self, st, verify(st))

remember_verified(self, st) ==
    [self EXCEPT !.seen_bare_states = @ \cup {st.bare_state}]

\* mutant: the staleness guard is left out
is_newer_unchecked(self, authority_id, st) == TRUE

\* mutant: >= where the code has >
is_newer_or_equal(self, authority_id, st) ==
    cmp(st.bare_state, self.states[authority_id].bare_state) # "Less"

\* the staleness guard
is_newer(self, authority_id, st) ==
    cmp(st.bare_state, self.states[authority_id].bare_state) = "Greater"

\* mutant: the sender's slot is not updated
take_state_skipped(self, authority_id, st) == self

take_state(self, authority_id, st) ==
    [self EXCEPT !.states[authority_id] = st]

\* mutant: the delivered state is adopted as it is, not merged with the own state
merge_into_own_adopts(self, st) ==
    IF ~State_eq(st, self.states[self.owner_id])
    THEN [self EXCEPT !.states[self.owner_id] = st, !.best_state_counter = 1]
    ELSE self

\* "We always take the best state seen so far"
merge_into_own(self, st) ==
    LET new_state == merge(self.states[self.owner_id], st)
    IN  IF ~State_eq(new_state, self.states[self.owner_id])
        THEN [self EXCEPT !.states[self.owner_id] = new_state,
                          !.best_state_counter = 1]
        ELSE self

\* mutant: an equal state is not counted as support
count_support_never(self, st) == self

count_support(self, st) ==
    IF State_eq(st, self.states[self.owner_id])
    THEN [self EXCEPT !.best_state_counter = @ + 1]
    ELSE self

\* mutant: the counter is not reset when the confidence is raised
raise_confidence_keeps_counter(self) ==
    IF can_increase_confidence(self)
    THEN [self EXCEPT
            !.states[self.owner_id] =
                increase_confidence(self.states[self.owner_id],
                                    collect_proof(self, self.num_authorities))]
    ELSE self

raise_confidence(self) ==
    IF can_increase_confidence(self)
    THEN [self EXCEPT
            !.states[self.owner_id] =
                increase_confidence(self.states[self.owner_id],
                                    collect_proof(self, self.num_authorities)),
            !.best_state_counter = 1]
    ELSE self

\* the commit check; assert_eq! unwinds with the instance as mutated so far
commit_check(self) ==
    LET own_state == self.states[self.owner_id]
    IN  IF can_commit(own_state)
        THEN IF self.committed # None
             THEN IF self.committed.val = endorses(own_state)
                  THEN [self |-> self, result |-> Updated(Some(own_state))]
                  ELSE [self |-> self, result |-> Panic]
             ELSE [self |-> [self EXCEPT !.committed = Some(endorses(own_state))],
                   result |-> Updated(Some(own_state))]
        ELSE [self |-> self, result |-> Updated(Some(own_state))]

\* yields the instance after the call and the call's result, state.verify()
\* answering valid
update_state_by(self, authority_id, st, valid) ==
    IF adversary_screen(self, authority_id, st)
    THEN reject_adversary(self, authority_id)
    ELSE IF ~passes_verification_by(self, st, valid)
    THEN [self |-> self, result |-> Error("Not valid state")]
    ELSE LET s0 == remember_verified(self, st)
         IN  IF is_newer(s0, authority_id, st)
             THEN commit_check(
                    raise_confidence(
                      count_support(
                        merge_into_own(take_state(s0, authority_id, st), st),
                        st)))
             ELSE [self |-> s0, result |-> Updated(None)]

\* update_state as built: state.verify() is the stub
update_state(self, authority_id, st) ==
    update_state_by(self, authority_id, st, verify(st))

\* the signature provider the stub stands for: it rejects a proof whose
\* aggregate signature is not the one the provider makes
verify_oracle(st) ==
    \A proof \in {st.proof0, st.proof1} :
        proof = None \/ proof.val.signature = SignedState_new.signature

\* an instance built without the verification cache: verify on every update
update_state_uncached(self, authority_id, st, valid) ==
    LET r == update_state_by([self EXCEPT !.seen_bare_states = {}],
                             authority_id, st, valid)
    IN  [self |-> [r.self EXCEPT !.seen_bare_states = {}], result |-> r.result]

\* ------------------------------------------------------------- the system
VARIABLES
    ns,        \* the running instances: instance id -> Nightshade
    aborted,   \* instance id -> TRUE once an assertion of update_state failed
    last,      \* instance id -> the last update_state call on it
    ncalls,    \* instance id -> update_state calls made on it
    pending,   \* updates given to instance 0 and not yet to instance 1 (a bag)
    sent,      \* the states the transport has to deliver: <<sender, state>>
    sync,      \* the synchronous run: its round and the deliveries left in it
    pair       \* two states and what the State algebra makes of them

vars == <<ns, aborted, last, ncalls, pending, sent, sync, pair>>

Authorities == 0..(NumAuthorities - 1)

\* the states a caller may hand to update_state, confidence0 up to maxc0
States(ids, minc, maxc0) ==
    {[bare_state |-> BareState(e, c0, c1), proof0 |-> None, proof1 |-> None] :
        e \in ids, c0 \in minc..maxc0, c1 \in minc..MaxConfidence1}

InputStates == States(Authorities, -1, MaxConfidence0)

WideStates == States(Authorities, -1, WideConfidence0)

NoCall(inst) ==
    [called |-> FALSE, authority_id |-> 0, state |-> State_empty,
     result |-> Updated(None), pre |-> inst, repeat |-> FALSE,
     prev_result |-> Updated(None), clean |-> TRUE]

RECURSIVE SumOver(_, _)
SumOver(f, S) ==
    IF S = {} THEN 0
    ELSE LET x == CHOOSE y \in S : TRUE IN f[x] + SumOver(f, S \ {x})

TotalCalls == SumOver(ncalls, DOMAIN ncalls)

\* one update_state call on instance p; last[p] keeps the call, its result and
\* the instance as it was before the call
CallRecord(p, authority_id, st, r) ==
    [called |-> TRUE, authority_id |-> authority_id,
     state |-> st, result |-> r.result, pre |-> ns[p],
     repeat |-> /\ last[p].called
                /\ last[p].authority_id = authority_id
                /\ last[p].state = st,
     prev_result |-> last[p].result,
     clean |-> /\ last[p].clean
               /\ r.result.kind = "Updated"
               /\ r.result.opt # None]

Call(p, authority_id, st) ==
    /\ ~aborted[p]
    /\ LET r == update_state(ns[p], authority_id, st)
       IN  /\ ns' = [ns EXCEPT ![p] = r.self]
           /\ aborted' = [aborted EXCEPT ![p] = (r.result = Panic)]
           /\ last' = [last EXCEPT ![p] = CallRecord(p, authority_id, st, r)]
    /\ ncalls' = [ncalls EXCEPT ![p] = @ + 1]

NoSync == [round |-> 0, todo |-> {}]

NoPair == [applied |-> FALSE]

\* the instances as constructed, no call made on them yet
Construct(insts, msgs) ==
    /\ ns = insts
    /\ aborted = [p \in DOMAIN insts |-> FALSE]
    /\ last = [p \in DOMAIN insts |-> NoCall(insts[p])]
    /\ ncalls = [p \in DOMAIN insts |-> 0]
    /\ pending = EmptyBag
    /\ sent = msgs

Start(insts, msgs) ==
    /\ Construct(insts, msgs)
    /\ sync = NoSync
    /\ pair = NoPair

\* --- one instance, any owner, fed arbitrary updates from any sender id ---
Init ==
    \E o \in Authorities : Start([p \in {0} |-> Nightshade_new(o, NumAuthorities)], {})

UpdateState ==
    /\ ncalls[0] < MaxCalls
    /\ \E authority_id \in Authorities, st \in InputStates : Call(0, authority_id, st)
    /\ UNCHANGED <<pending, sent, sync, pair>>

Next == UpdateState

Spec == Init /\ [][Next]_vars

\* --- the same instance fed states of higher confidence, fewer calls ---
WideUpdateState ==
    /\ ncalls[0] < WideCalls
    /\ \E authority_id \in Authorities, st \in WideStates : Call(0, authority_id, st)
    /\ UNCHANGED <<pending, sent, sync, pair>>

WideNext == WideUpdateState

WideSpec == Init /\ [][WideNext]_vars

\* --- two instances of one owner given the same updates of its peers, ---
\* --- instance 0 in the order they are made, instance 1 in any order   ---
OrderStates == States(Authorities, 0, OrderConfidence0)

OrderInit ==
    \E o \in Authorities :
        Start([p \in {0, 1} |-> Nightshade_new(o, NumAuthorities)], {})

Feed ==
    /\ ncalls[0] < OrderUpdates
    /\ \E authority_id \in Authorities \ {ns[0].owner_id}, st \in OrderStates :
          /\ Call(0, authority_id, st)
          /\ pending' = pending (+) SetToBag({<<authority_id, st>>})
    /\ UNCHANGED <<sent, sync, pair>>

Replay ==
    /\ \E m \in BagToSet(pending) :
          /\ Call(1, m[1], m[2])
          /\ pending' = pending (-) SetToBag({m})
    /\ UNCHANGED <<sent, sync, pair>>

OrderNext == Feed \/ Replay

OrderSpec == OrderInit /\ [][OrderNext]_vars

\* --- the network: the honest instances relay their own states, which the ---
\* --- transport may reorder, lose and duplicate; fewer than a third of    ---
\* --- the authorities are adversarial and deliver any state               ---
NetIds == 0..(NetAuthorities - 1)

NetFaulty == (NetAuthorities - 1) \div 3

Byzantine == {a \in NetIds : a >= NetAuthorities - NetFaulty}

Honest == NetIds \ Byzantine

ByzStates == States(NetIds, 0, NetConfidence0)

\* the transport broadcasts the own state that update_state returns
Broadcast(p, result) ==
    IF result.kind = "Updated" /\ result.opt # None
    THEN {<<p, result.opt.val>>}
    ELSE {}

NetInit ==
    Start([p \in Honest |-> Nightshade_new(p, NetAuthorities)],
          {<<p, State_new(p)>> : p \in Honest})

Relay ==
    /\ TotalCalls < NetCalls
    /\ \E p \in Honest, m \in sent :
          /\ m[1] # p
          /\ Call(p, m[1], m[2])
          /\ sent' = sent \cup Broadcast(p, last'[p].result)
    /\ UNCHANGED <<pending, sync, pair>>

Forge ==
    /\ TotalCalls < NetCalls
    /\ \E p \in Honest, a \in Byzantine, st \in ByzStates :
          /\ Call(p, a, st)
          /\ sent' = sent \cup Broadcast(p, last'[p].result)
    /\ UNCHANGED <<pending, sync, pair>>

NetNext == Relay \/ Forge

NetSpec == NetInit /\ [][NetNext]_vars

\* --- the network with every authority honest: the only states delivered ---
\* --- are own states of the instances, reordered, lost and duplicated    ---
HonestIds == 0..(HonestAuthorities - 1)

HonestInit ==
    Start([p \in HonestIds |-> Nightshade_new(p, HonestAuthorities)],
          {<<p, State_new(p)>> : p \in HonestIds})

HonestRelay ==
    /\ TotalCalls < HonestCalls
    /\ \E p \in HonestIds, m \in sent :
          /\ m[1] # p
          /\ Call(p, m[1], m[2])
          /\ sent' = sent \cup Broadcast(p, last'[p].result)
    /\ UNCHANGED <<pending, sync, pair>>

HonestNext == HonestRelay

HonestSpec == HonestInit /\ [][HonestNext]_vars

\* --- two instances of one owner given the same updates, the first as   ---
\* --- built, the second without the verification cache; state.verify() ---
\* --- is the signature provider                                         ---
ForgedProof == [signature |-> 1, parent |-> <<>>]

OracleStates ==
    {[s EXCEPT !.proof0 = proof] :
        s \in States(Authorities, 0, OracleConfidence0),
        proof \in {None, Some(ForgedProof)}}

OracleInit ==
    \E o \in Authorities :
        Start([p \in {0, 1} |-> Nightshade_new(o, NumAuthorities)], {})

OracleUpdate ==
    /\ ncalls[0] < OracleCalls
    /\ ~aborted[0] /\ ~aborted[1]
    /\ \E authority_id \in Authorities, st \in OracleStates :
          LET valid == verify_oracle(st)
              r0 == update_state_by(ns[0], authority_id, st, valid)
              r1 == update_state_uncached(ns[1], authority_id, st, valid)
              r == <<r0, r1>>
          IN  /\ ns' = [p \in {0, 1} |-> r[p + 1].self]
              /\ aborted' = [p \in {0, 1} |-> r[p + 1].result = Panic]
              /\ last' = [p \in {0, 1} |->
                            CallRecord(p, authority_id, st, r[p + 1])]
    /\ ncalls' = [p \in {0, 1} |-> ncalls[p] + 1]
    /\ UNCHANGED <<pending, sent, sync, pair>>

OracleNext == OracleUpdate

OracleSpec == OracleInit /\ [][OracleNext]_vars

\* --- merge, incompatible_states and the order applied to two states,  ---
\* --- the empty state among them; then an instance is given the two   ---
AlgebraStates ==
    {[bare_state |-> BareState(e, c0, c1), proof0 |-> None, proof1 |-> None] :
        e \in Authorities, c0 \in -1..AlgebraConfidence, c1 \in -1..AlgebraConfidence}

AlgebraInit ==
    /\ \E o \in Authorities :
          Construct([p \in {0} |-> Nightshade_new(o, NumAuthorities)], {})
    /\ sync = NoSync
    /\ \E a \in AlgebraStates, b \in AlgebraStates :
          pair = [applied |-> FALSE, a |-> a, b |-> b]

Apply ==
    /\ ~pair.applied
    /\ pair' = [applied |-> TRUE, a |-> pair.a, b |-> pair.b,
                ab |-> merge(pair.a, pair.b),
                ba |-> merge(pair.b, pair.a),
                aab |-> merge(pair.a, merge(pair.a, pair.b)),
                max |-> max(pair.a, pair.b),
                incompatible |-> incompatible_states(pair.a, pair.b),
                cmp_ab |-> cmp(pair.a.bare_state, pair.b.bare_state),
                cmp_ba |-> cmp(pair.b.bare_state, pair.a.bare_state)]
    /\ UNCHANGED <<ns, aborted, last, ncalls, pending, sent, sync>>

Give ==
    /\ pair.applied
    /\ ncalls[0] < AlgebraCalls
    /\ \E authority_id \in Authorities \ {ns[0].owner_id}, st \in {pair.a, pair.b} :
          Call(0, authority_id, st)
    /\ UNCHANGED <<pending, sent, sync, pair>>

AlgebraNext == Apply \/ Give

AlgebraSpec == AlgebraInit /\ [][AlgebraNext]_vars

\* --- the synchronous run of the tests: in each round the own state of ---
\* --- every instance, as it is when the round begins, is delivered to  ---
\* --- every other instance                                             ---
SyncSizes == {2, 3}

SyncInit ==
    \E n \in SyncSizes : Start([p \in 0..(n - 1) |-> Nightshade_new(p, n)], {})

BeginRound ==
    /\ sync.todo = {}
    /\ sync.round < SyncRounds
    /\ sync' = [round |-> sync.round + 1,
                todo |-> {<<i, j, state(ns[j])>> :
                            i \in DOMAIN ns, j \in DOMAIN ns} \
                         {<<i, i, state(ns[i])>> : i \in DOMAIN ns}]
    /\ UNCHANGED <<ns, aborted, last, ncalls, pending, sent, pair>>

SyncDeliver ==
    /\ \E d \in sync.todo :
          /\ Call(d[1], d[2], d[3])
          /\ sync' = [sync EXCEPT !.todo = @ \ {d}]
    /\ UNCHANGED <<pending, sent, pair>>

SyncNext == BeginRound \/ SyncDeliver

SyncSpec == SyncInit /\ [][SyncNext]_vars

\* ------------------------------------------------------------ shorthands
own(p) == state(ns[p])

pre_own(p) == state(last[p].pre)

Instances == DOMAIN ns

\* the number of authorities whose recorded state equals the own state
Supporters(self) ==
    Cardinality({i \in DOMAIN self.states : State_eq(self.states[i], state(self))})

\* the call last[p] was accepted: it got as far as the merge
Accepted(p) ==
    /\ last[p].called
    /\ last[p].result.kind = "Updated"
    /\ last[p].result.opt # None

\* the instance of the accepted call last[p] after merging and counting,
\* before the confidence is raised
Counted(p) ==
    count_support(
      merge_into_own(
        take_state(remember_verified(last[p].pre, last[p].state),
                   last[p].authority_id, last[p].state),
        last[p].state),
      last[p].state)

\* the call last[p] passed the adversary screen and the verification and
\* was stale
StaleCall(p) ==
    /\ last[p].called
    /\ ~last[p].pre.is_adversary[last[p].authority_id]
    /\ ~incompatible_states(last[p].pre.states[last[p].authority_id], last[p].state)
    /\ passes_verification(last[p].pre, last[p].state)
    /\ cmp(last[p].state.bare_state,
           last[p].pre.states[last[p].authority_id].bare_state) # "Greater"

\* ----------------------------------------------------------------- C1
\* C1: with fewer than a third of the authorities adversarial, no two honest
\* instances have committed different authorities.
C1_Agreement ==
    \A p \in Instances, q \in Instances :
        (ns[p].committed # None /\ ns[q].committed # None)
        => ns[p].committed = ns[q].committed

\* ----------------------------------------------------------------- C2
\* C2: once committed = Some(e), an update_state call that returns leaves
\* committed as it was and the own state endorsing e.
C2_CommitLatched ==
    \A p \in Instances :
        (last[p].called /\ last[p].pre.committed # None /\ last[p].result # Panic)
        => /\ ns[p].committed = last[p].pre.committed
           /\ endorses(own(p)) = last[p].pre.committed.val

\* ----------------------------------------------------------------- C3
\* C3: after every update_state call that returns, from any sender id, the
\* number of authorities whose recorded state equals the own state is
\* best_state_counter.
C3_CounterCountsSupporters ==
    \A p \in Instances :
        (last[p].called /\ last[p].result # Panic)
        => Supporters(ns[p]) = ns[p].best_state_counter

\* ----------------------------------------------------------------- C4
\* C4: no update_state call lowers the own state's confidence0.
C4_Confidence0Monotone ==
    \A p \in Instances :
        last[p].called
        => own(p).bare_state.confidence0 >= pre_own(p).bare_state.confidence0

\* a call that raised the own confidence0 at a super-majority
C4_Witness ==
    \E p \in Instances :
        /\ last[p].called
        /\ last[p].pre.best_state_counter = 2
        /\ endorses(own(p)) = endorses(pre_own(p))
        /\ own(p).bare_state.confidence0 = pre_own(p).bare_state.confidence0 + 1
        /\ own(p).proof0 # None

\* ----------------------------------------------------------------- C5
\* C5: every update_state call returns Updated or Error: the commit
\* consistency assertion never fails.
C5_NeverPanics ==
    \A p \in Instances :
        last[p].called => last[p].result.kind \in {"Updated", "Error"}

\* ----------------------------------------------------------------- C6
\* C6: a flag of is_adversary that is set stays set, and a call from a
\* flagged sender returns Error and changes neither states,
\* best_state_counter, seen_bare_states nor committed.
C6_AdversarySticky ==
    \A p \in Instances :
        last[p].called
        => /\ \A i \in DOMAIN ns[p].is_adversary :
                last[p].pre.is_adversary[i] => ns[p].is_adversary[i]
           /\ last[p].pre.is_adversary[last[p].authority_id]
              => /\ last[p].result.kind = "Error"
                 /\ ns[p].states = last[p].pre.states
                 /\ ns[p].best_state_counter = last[p].pre.best_state_counter
                 /\ ns[p].seen_bare_states = last[p].pre.seen_bare_states
                 /\ ns[p].committed = last[p].pre.committed

\* a flagged peer sends a state that is newer than, and compatible with, the
\* one recorded for it
C6_Witness ==
    \E p \in Instances :
        /\ last[p].called
        /\ last[p].authority_id # ns[p].owner_id
        /\ last[p].pre.is_adversary[last[p].authority_id]
        /\ ~incompatible_states(last[p].pre.states[last[p].authority_id],
                                last[p].state)
        /\ cmp(last[p].state.bare_state,
               last[p].pre.states[last[p].authority_id].bare_state) = "Greater"
        /\ last[p].result.kind = "Error"

\* ----------------------------------------------------------------- C7
\* C7: a call with a state incompatible with the one recorded for the sender
\* returns Error, flags the sender and changes nothing else.
C7_EquivocationFlagged ==
    \A p \in Instances :
        (/\ last[p].called
         /\ incompatible_states(last[p].pre.states[last[p].authority_id],
                                last[p].state))
        => /\ last[p].result.kind = "Error"
           /\ ns[p] = [last[p].pre EXCEPT !.is_adversary[last[p].authority_id] = TRUE]

\* a peer that was not flagged equivocates
C7_Witness ==
    \E p \in Instances :
        /\ last[p].called
        /\ last[p].authority_id # ns[p].owner_id
        /\ ~last[p].pre.is_adversary[last[p].authority_id]
        /\ incompatible_states(last[p].pre.states[last[p].authority_id],
                               last[p].state)
        /\ ns[p].is_adversary[last[p].authority_id]

\* ----------------------------------------------------------------- C8
\* C8 as claimed: a stale update returns Updated(None) and changes no field of
\* the instance.
C8_StaleChangesNothing ==
    \A p \in Instances :
        StaleCall(p) => /\ last[p].result = Updated(None)
                        /\ ns[p] = last[p].pre

\* C8 as amended: a stale update returns Updated(None) and changes no field of
\* the instance but seen_bare_states, which gains the bare state of the update.
C8_StaleOnlyCaches ==
    \A p \in Instances :
        StaleCall(p)
        => /\ last[p].result = Updated(None)
           /\ ns[p] = [last[p].pre EXCEPT
                         !.seen_bare_states = @ \cup {last[p].state.bare_state}]

\* an older snapshot of a peer, not verified before, arrives after a newer one
C8_Witness ==
    \E p \in Instances :
        /\ StaleCall(p)
        /\ last[p].authority_id # ns[p].owner_id
        /\ last[p].pre.states[last[p].authority_id].bare_state.confidence0 >= 0
        /\ cmp(last[p].state.bare_state,
               last[p].pre.states[last[p].authority_id].bare_state) = "Less"
        /\ last[p].state.bare_state \notin last[p].pre.seen_bare_states
        /\ last[p].state.bare_state \in ns[p].seen_bare_states

\* ----------------------------------------------------------------- C9
\* C9 as claimed: the second of two equal update_state calls in a row returns
\* Updated(None) and leaves the own state as the first call left it.
C9_RetransmitIdempotent ==
    \A p \in Instances :
        (last[p].called /\ last[p].repeat)
        => /\ last[p].result = Updated(None)
           /\ State_eq(own(p), pre_own(p))

\* C9 as amended: the second of two equal update_state calls in a row leaves
\* the own state as the first call left it; it returns Updated(None) when the
\* first call returned Updated, and Error when the first call returned Error.
C9_RetransmitRepeatsOutcome ==
    \A p \in Instances :
        (last[p].called /\ last[p].repeat)
        => /\ own(p) = pre_own(p)
           /\ last[p].prev_result.kind = "Updated" => last[p].result = Updated(None)
           /\ last[p].prev_result.kind = "Error" => last[p].result.kind = "Error"
           /\ last[p].prev_result.kind \in {"Updated", "Error"}

\* an update that changed the own state is delivered a second time
C9_Witness ==
    \E p \in Instances :
        /\ last[p].called
        /\ last[p].repeat
        /\ last[p].prev_result.kind = "Updated"
        /\ last[p].prev_result.opt # None
        /\ last[p].result = Updated(None)

\* ---------------------------------------------------------------- C10
\* C10: two instances of one owner that took the same multiset of updates,
\* every one of them accepted by both, in two orders have the same own state.
C10_OrderIndependent ==
    (/\ ncalls[0] > 0
     /\ pending = EmptyBag
     /\ last[0].clean
     /\ last[1].clean)
    => State_eq(own(0), own(1))

\* ---------------------------------------------------------------- C11
\* C11: after the 5 rounds of the synchronous run of 2 or 3 instances, the
\* own state of every instance can commit and every instance is final.
C11_SyncConvergence ==
    (sync.round = SyncRounds /\ sync.todo = {})
    => \A p \in Instances :
          /\ ~aborted[p]
          /\ can_commit(own(p))
          /\ is_final(ns[p])

\* the run of 3 instances has ended
C11_Witness ==
    /\ sync.round = SyncRounds
    /\ sync.todo = {}
    /\ Cardinality(Instances) = 3
    /\ \A p \in Instances : can_commit(own(p))

\* ---------------------------------------------------------------- C12
\* C12: a call whose state fails verification, from a sender not flagged
\* before, returns an Error, changes no field and leaves the sender unflagged.
C12_InvalidNotAccused ==
    (/\ last[0].called
     /\ ~verify_oracle(last[0].state)
     /\ ~last[0].pre.is_adversary[last[0].authority_id])
    => /\ last[0].result.kind = "Error"
       /\ ns[0] = last[0].pre
       /\ ~ns[0].is_adversary[last[0].authority_id]

\* ---------------------------------------------------------------- C19
\* C19: after every call the instance with the verification cache and the
\* instance without it have returned the same result and hold the same
\* states, is_adversary, best_state_counter and committed.
C19_CacheIsOptimization ==
    last[0].called
    => /\ last[0].result = last[1].result
       /\ ns[0].states = ns[1].states
       /\ ns[0].is_adversary = ns[1].is_adversary
       /\ ns[0].best_state_counter = ns[1].best_state_counter
       /\ ns[0].committed = ns[1].committed

\* ---------------------------------------------------------------- C13
\* C13: after new and after every update_state call, whatever the sender id
\* and the state, best_state_counter is at least 1 and at most n.
C13_CounterInRange ==
    \A p \in Instances :
        /\ own(p).bare_state.confidence0 >= 0
        /\ ns[p].best_state_counter >= 1
        /\ ns[p].best_state_counter <= ns[p].num_authorities

\* a call counted the last supporter needed and the counter went back to 1
C13_Witness ==
    /\ last[0].called
    /\ last[0].pre.best_state_counter = 2
    /\ State_eq(last[0].state, state(last[0].pre))
    /\ own(0).bare_state.confidence0 = pre_own(0).bare_state.confidence0 + 1
    /\ ns[0].best_state_counter = 1

\* ---------------------------------------------------------------- C14
\* C14: for all states a and b, the empty state included, merge(a, b) equals
\* merge(b, a) and merge(a, merge(a, b)) equals merge(a, b), equality being
\* that of the bare states.
C14_MergeCommutativeIdempotent ==
    pair.applied
    => /\ State_eq(pair.ab, pair.ba)
       /\ State_eq(pair.aab, pair.ab)

\* two states of different endorsement whose merge is neither of them
C14_Witness ==
    /\ pair.applied
    /\ endorses(pair.a) # endorses(pair.b)
    /\ ~State_eq(pair.ab, pair.a)
    /\ ~State_eq(pair.ab, pair.b)

\* ---------------------------------------------------------------- C15
\* C15: merge(a, b) is never below a, b or max(a, b) in the order, and it is
\* strictly above max(a, b) exactly when a and b are incompatible.
C15_MergeDominates ==
    pair.applied
    => /\ State_cmp(pair.ab, pair.a) # "Less"
       /\ State_cmp(pair.ab, pair.b) # "Less"
       /\ State_cmp(pair.ab, pair.max) # "Less"
       /\ pair.incompatible <=> (State_cmp(pair.ab, pair.max) = "Greater")

\* two incompatible states: the merge is strictly above both
C15_Witness ==
    /\ pair.applied
    /\ pair.incompatible
    /\ State_cmp(pair.ab, pair.a) = "Greater"
    /\ State_cmp(pair.ab, pair.b) = "Greater"

\* ---------------------------------------------------------------- C16
\* C16: the comparison of bare states is a total antisymmetric order: of two
\* states the one of higher confidence0 is greater, then the one of smaller
\* endorses, then the one of higher confidence1; the empty state is below
\* every real state; and an instance whose own state endorses its owner
\* with confidence0 c, accepting a peer state of confidence0 c and a
\* smaller endorses, endorses that smaller id after the call.
C16_OrderAndAdoption ==
    /\ pair.applied
       => LET a == pair.a.bare_state
              b == pair.b.bare_state
          IN  /\ (pair.cmp_ab = "Equal") <=> (a = b)
              /\ (pair.cmp_ab = "Greater") <=> (pair.cmp_ba = "Less")
              /\ (pair.cmp_ab = "Less") <=> (pair.cmp_ba = "Greater")
              /\ (pair.cmp_ab = "Greater")
                 <=> \/ a.confidence0 > b.confidence0
                     \/ a.confidence0 = b.confidence0 /\ a.endorses < b.endorses
                     \/ /\ a.confidence0 = b.confidence0
                        /\ a.endorses = b.endorses
                        /\ a.confidence1 > b.confidence1
              /\ (a = BareState_empty /\ b.confidence0 >= 0 /\ b.confidence1 >= 0)
                 => pair.cmp_ab = "Less"
              /\ \A c \in AlgebraStates :
                    (pair.cmp_ab # "Less" /\ State_cmp(pair.b, c) # "Less")
                    => State_cmp(pair.a, c) # "Less"
    /\ (/\ last[0].called
        /\ last[0].result.kind = "Updated"
        /\ last[0].result.opt # None
        /\ endorses(pre_own(0)) = ns[0].owner_id
        /\ last[0].state.bare_state.confidence0 = pre_own(0).bare_state.confidence0
        /\ endorses(last[0].state) < endorses(pre_own(0)))
       => endorses(own(0)) = endorses(last[0].state)

\* the two states were compared and the instance has accepted the one that
\* endorses a smaller id at its own confidence0
C16_Witness ==
    /\ pair.applied
    /\ pair.cmp_ab = "Greater"
    /\ last[0].called
    /\ last[0].result.kind = "Updated"
    /\ last[0].result.opt # None
    /\ endorses(pre_own(0)) = ns[0].owner_id
    /\ last[0].state.bare_state.confidence0 = pre_own(0).bare_state.confidence0
    /\ endorses(last[0].state) < endorses(pre_own(0))
    /\ endorses(own(0)) = endorses(last[0].state)

\* ---------------------------------------------------------------- C17
\* C17: an accepted call raises the own confidence0 exactly when, after the
\* merge and the count, more than 2n/3 authorities (the owner included) have
\* a recorded state equal to the own state; the raise adds exactly 1 to
\* confidence0, keeps endorses and confidence1 and sets the counter to 1.
C17_RaiseAtSuperMajority ==
    Accepted(0)
    => LET mid == state(Counted(0)).bare_state
           raised == own(0).bare_state # mid
       IN  /\ raised <=> (3 * Supporters(Counted(0)) > 2 * ns[0].num_authorities)
           /\ raised => /\ own(0).bare_state.confidence0 = mid.confidence0 + 1
                        /\ own(0).bare_state.endorses = mid.endorses
                        /\ own(0).bare_state.confidence1 = mid.confidence1
                        /\ ns[0].best_state_counter = 1

C18_ProofInvariant ==
    \A p \in Instances :
        own(p).bare_state.confidence0 > 0
        => /\ own(p).proof0 # None
           /\ LET parent == own(p).proof0.val.parent
              IN  /\ 3 * Len(parent) > 2 * ns[p].num_authorities
                  /\ \A i \in 1..Len(parent) :
                        /\ parent[i].endorses = endorses(own(p))
                        /\ parent[i].confidence0 = own(p).bare_state.confidence0 - 1

\* ---------------------------------------------------------------- C21
\* C21: after new and after every update_state call, whatever the sender id
\* and the state, no recorded state is above the own state in the order,
\* and no recorded state, the own state among them, is below what it was
\* before the call.
C21_OwnStateDominates ==
    \A p \in Instances :
        /\ \A i \in DOMAIN ns[p].states :
              State_cmp(ns[p].states[i], own(p)) # "Greater"
        /\ last[p].called
           => \A i \in DOMAIN ns[p].states :
                 State_cmp(ns[p].states[i], last[p].pre.states[i]) # "Less"

\* a peer's recorded state has moved up to a state above the own state of
\* before the call, and the own state has moved above both
C21_Witness ==
    /\ Accepted(0)
    /\ last[0].authority_id # ns[0].owner_id
    /\ last[0].pre.states[last[0].authority_id].bare_state.confidence0 >= 0
    /\ State_cmp(last[0].state, pre_own(0)) = "Greater"
    /\ State_eq(ns[0].states[last[0].authority_id], last[0].state)
    /\ State_cmp(own(0), last[0].state) = "Greater"

====
